---- MODULE Spec2Model ----
(***************************************************************************)
(* A state-machine model of the cloth simulation engine, class             *)
(* PhysicsWorld of src/src/main.cpp (the second translation unit of that   *)
(* file, lines 314-905), together with the calls the front end             *)
(* src/src/main.ts makes on it.                                            *)
(*                                                                         *)
(* Numbers.  The C++ code computes in IEEE single precision.  The model    *)
(* computes in exact rational arithmetic: a number is a pair <<n, d>> in   *)
(* lowest terms with d > 0.  The one irrational operation, std::sqrt, is   *)
(* exact on squares and rounded down to a multiple of 1/SqrtScale          *)
(* elsewhere.  Rounding of the other float operations is not modelled.     *)
(*                                                                         *)
(* Indices.  particles, springs and adjacency_list are functions on        *)
(* 0 .. size-1, so every index of the model is the index of the code.      *)
(*                                                                         *)
(* Records.  A record constructor lists its fields in the order in which   *)
(* TLC keeps them (the order in which the names first appear), so that no  *)
(* worker ever has to sort the fields of a record another one reads.       *)
(***************************************************************************)
EXTENDS Integers, Sequences, FiniteSets, TLC

(***************************************************************************)
(* Bounds of the model.                                                    *)
(***************************************************************************)
\* largest grid width / height handed to createCloth in SpecStore
MaxW == 4
MaxH == 3
\* largest number of step() calls one update() may need (tick mode)
MaxTicks == 3
\* number of update() calls of one behaviour
MaxUpdates == 2
\* largest sub-step count handed to setSubSteps in SpecTime
MaxSubStepsArg == 2

(***************************************************************************)
(* Rational arithmetic (float in the code).                                *)
(***************************************************************************)
Abs(a) == IF a < 0 THEN -a ELSE a

RECURSIVE GCD(_, _)
GCD(a, b) == IF b = 0 THEN a ELSE GCD(b, a % b)

\* the rational n/d in lowest terms, d > 0
Rat(n, d) ==
    LET s == IF d < 0 THEN -1 ELSE 1
        g == GCD(Abs(n), Abs(d))
    IN  <<(s * n) \div g, (s * d) \div g>>

R(n) == <<n, 1>>
\* a NaN: every comparison with it is false
NaN == <<0, 0>>
\* a is a number, and not a NaN
IsNumber(a) == a[2] > 0
Zero == <<0, 1>>
One == <<1, 1>>

\* sums and comparisons go through the least common denominator, and
\* products cancel crosswise first, so that no intermediate value is larger
\* than the result needs
RAdd(a, b) ==
    LET g == GCD(a[2], b[2])
    IN  Rat(a[1] * (b[2] \div g) + b[1] * (a[2] \div g), (a[2] \div g) * b[2])
RNeg(a) == <<-a[1], a[2]>>
RSub(a, b) == RAdd(a, RNeg(b))
RMul(a, b) ==
    LET g1 == GCD(Abs(a[1]), b[2])
        g2 == GCD(Abs(b[1]), a[2])
    IN  <<(a[1] \div g1) * (b[1] \div g2), (a[2] \div g2) * (b[2] \div g1)>>
\* a / b for b # 0
RDiv(a, b) ==
    RMul(a, IF b[1] < 0 THEN <<-b[2], -b[1]>> ELSE <<b[2], b[1]>>)
RLt(a, b) ==
    LET g == GCD(a[2], b[2])
    IN  a[1] * (b[2] \div g) < b[1] * (a[2] \div g)
RGt(a, b) == RLt(b, a)
RLe(a, b) == ~RLt(b, a)
\* std::max(a, b) and std::min(a, b)
RMax(a, b) == IF RLt(a, b) THEN b ELSE a
RMin(a, b) == IF RLt(b, a) THEN b ELSE a

\* static_cast<int>(f): truncation toward zero
Trunc(a) == IF a[1] >= 0 THEN a[1] \div a[2] ELSE -((-a[1]) \div a[2])

\* the largest r in lo..hi with r*r <= n
RECURSIVE ISqrtIn(_, _, _)
ISqrtIn(n, lo, hi) ==
    IF lo >= hi THEN lo
    ELSE LET mid == (lo + hi + 1) \div 2
         IN  IF mid * mid <= n THEN ISqrtIn(n, mid, hi)
                               ELSE ISqrtIn(n, lo, mid - 1)

\* resolution of std::sqrt in the model: results are multiples of 1/SqrtScale
SqrtScale == 64

\* the integer square root of m >= 0; 46340 is the largest int whose square
\* is an int
ISqrt(m) == ISqrtIn(m, 0, IF m < 46340 THEN m ELSE 46340)

\* std::sqrt(a) for a >= 0: the root itself where a is the square of a
\* rational, and the root rounded down to a multiple of 1/SqrtScale elsewhere
RSqrt(a) ==
    IF ISqrt(a[1]) * ISqrt(a[1]) = a[1] /\ ISqrt(a[2]) * ISqrt(a[2]) = a[2]
      THEN <<ISqrt(a[1]), ISqrt(a[2])>>
      ELSE Rat(ISqrt((a[1] * SqrtScale * SqrtScale) \div a[2]), SqrtScale)

\* resolution of a stored float in SpecEnergy: multiples of 1/FloatScale
FloatScale == 1024

\* a float store: a rounded to the nearest multiple of 1/FloatScale
RRound(a) ==
    LET q == a[1] \div a[2]
        r == a[1] % a[2]
    IN  Rat(q * FloatScale + (2 * r * FloatScale + a[2]) \div (2 * a[2]),
            FloatScale)

(***************************************************************************)
(* struct Vec3.                                                            *)
(***************************************************************************)
Vec3(x, y, z) == [x |-> x, y |-> y, z |-> z]
VZero == Vec3(Zero, Zero, Zero)
VAdd(a, b) == Vec3(RAdd(a.x, b.x), RAdd(a.y, b.y), RAdd(a.z, b.z))
VSub(a, b) == Vec3(RSub(a.x, b.x), RSub(a.y, b.y), RSub(a.z, b.z))
VMul(a, s) == Vec3(RMul(a.x, s), RMul(a.y, s), RMul(a.z, s))
\* std::sqrt(x*x + y*y + z*z); the root of a single square is taken without
\* squaring
VLength(a) ==
    CASE a.x = Zero /\ a.z = Zero -> <<Abs(a.y[1]), a.y[2]>>
      [] a.y = Zero /\ a.z = Zero -> <<Abs(a.x[1]), a.x[2]>>
      [] a.x = Zero /\ a.y = Zero -> <<Abs(a.z[1]), a.z[2]>>
      [] OTHER ->
           RSqrt(RAdd(RAdd(RMul(a.x, a.x), RMul(a.y, a.y)), RMul(a.z, a.z)))
VDot(a, b) == RAdd(RAdd(RMul(a.x, b.x), RMul(a.y, b.y)), RMul(a.z, b.z))

VRound(a) == Vec3(RRound(a.x), RRound(a.y), RRound(a.z))

(***************************************************************************)
(* Program constants.                                                      *)
(***************************************************************************)
\* the ground plane of solve_constraints
GroundY == R(900)
\* the ceiling step() puts on dt
MaxStepDt == <<1, 20>>
\* the floors of set_sim_dt, set_fixed_dt and set_mass
MinSimDt == <<1, 100000>>
MinFixedDt == <<1, 10000>>
MinMass == <<1, 10>>
\* the separation under which solve_springs and get_acceleration skip a spring
SpringEpsilon == <<1, 10000>>
\* std::sqrt(2.0f)
Sqrt2 == RSqrt(R(2))
\* 2^31 - 1, the largest int
IntMax == 2147483647

\* enum SolverType
SOLVER_EXPLICIT_EULER == 0
SOLVER_SYMPLECTIC_EULER == 1
SOLVER_VERLET == 2
SOLVER_TIME_CORRECTED_VERLET == 3
SOLVER_RK2 == 4
SOLVER_RK4 == 5
SOLVER_IMPLICIT_EULER == 6
SOLVER_VEOLCITY_VERLET == 7

\* the solvers of enum SolverType
Solvers == SOLVER_EXPLICIT_EULER .. SOLVER_VEOLCITY_VERLET

(***************************************************************************)
(* State.                                                                  *)
(***************************************************************************)
VARIABLES
    \* class PhysicsWorld
    particles,        \* std::vector<Particle>, a function on 0 .. size-1
    springs,          \* std::vector<Spring>, a function on 0 .. size-1
    adjacency_list,   \* per particle, the sequence of its spring indices
    gravity, wind, global_damping, sub_steps, current_solver,
    fixed_dt, accumulator, sim_dt, use_ticks,
    \* the position of the one thread of control, and the locals of
    \* update() and step()
    pc,               \* "idle", "ticks", "single", "step", "return"
    ticks,            \* update(): int ticks
    tick_i,           \* update(): the loop counter i
    sub_dt,           \* step(): float sub_dt
    sub_i,            \* step(): the loop counter i
    \* history
    call,             \* the last call made on the world: its arguments,
                      \* its result, and what it found where a claim asks
    over,             \* the particles the last sub-step's integrator left
                      \* above the ground plane
    elapsed,          \* the sum of the sub-step durations of the current step()
    nsteps,           \* the number of step() calls of the current update()
    nupdates          \* the number of update() calls so far

store == <<particles, springs, adjacency_list>>
config == <<gravity, wind, global_damping, sub_steps, current_solver,
            fixed_dt, accumulator, sim_dt, use_ticks>>
locals == <<ticks, tick_i, sub_dt, sub_i>>
history == <<call, over, elapsed, nsteps, nupdates>>
vars == <<store, config, pc, locals, history>>

\* everything a client can observe of the world
World ==
    [particles |-> particles, springs |-> springs,
     adjacency_list |-> adjacency_list,
     gravity |-> gravity, wind |-> wind, global_damping |-> global_damping,
     sub_steps |-> sub_steps, current_solver |-> current_solver,
     fixed_dt |-> fixed_dt, accumulator |-> accumulator,
     sim_dt |-> sim_dt, use_ticks |-> use_ticks]

Size(f) == Cardinality(DOMAIN f)

\* p.is_pinned > 0.5f and p.is_pinned < 0.5f, is_pinned being 0.0f or 1.0f
PinnedP(p) == 2 * p.is_pinned > 1
FreeP(p) == 2 * p.is_pinned < 1

\* (size_t)i < n for an int i and a size n: a negative i converts to
\* i + 2^32, which is compared here without leaving 32 bits
SizeLess(i, n) ==
    IF i >= 0 THEN i < n
    ELSE (i + IntMax) + 1 < (n - IntMax) - 1

NoCall == [op |-> "none"]

\* the positions of the pinned particles
PinnedPositions ==
    [i \in {j \in DOMAIN particles : PinnedP(particles[j])} |->
        particles[i].pos]

(***************************************************************************)
(* PhysicsWorld(): the state after construction.                           *)
(***************************************************************************)
Constructed ==
    /\ particles = <<>>
    /\ springs = <<>>
    /\ adjacency_list = <<>>
    /\ gravity = Vec3(Zero, <<-981, 100>>, Zero)
    /\ wind = VZero
    /\ global_damping = <<99, 100>>
    /\ sub_steps = 8
    /\ current_solver = SOLVER_VERLET
    /\ fixed_dt = <<1, 60>>
    /\ accumulator = Zero
    /\ sim_dt = <<1, 60>>
    /\ use_ticks = FALSE
    /\ ticks = 0 /\ tick_i = 0 /\ sub_dt = Zero /\ sub_i = 0
    /\ call = NoCall
    /\ over = {}
    /\ elapsed = Zero /\ nsteps = 0 /\ nupdates = 0

Init == Constructed /\ pc = "idle"

(***************************************************************************)
(* Topology builder.                                                       *)
(***************************************************************************)
\* A variant of ClothParticle that anchors the whole top row.
ClothParticleTopRow(sx, sy, sz, w, sep, x, y) ==
    LET is_anchor == (y = 0)
        p == Vec3(RAdd(sx, RMul(R(x), sep)), RSub(sy, RMul(R(y), sep)), sz)
    IN  [is_pinned |-> IF is_anchor THEN 1 ELSE 0,
         pos |-> p,
         old_pos |-> p,
         acc |-> VZero,
         vel |-> VZero,
         mass |-> One,
         prev_dt |-> <<1, 60>>]

\* the Particle create_cloth pushes for grid cell (x, y)
ClothParticle(sx, sy, sz, w, sep, x, y) ==
    LET is_anchor == (y = 0 /\ (x = 0 \/ x = w - 1))
        p == Vec3(RAdd(sx, RMul(R(x), sep)), RSub(sy, RMul(R(y), sep)), sz)
    IN  [is_pinned |-> IF is_anchor THEN 1 ELSE 0,
         pos |-> p,
         old_pos |-> p,
         acc |-> VZero,
         vel |-> VZero,
         mass |-> One,
         prev_dt |-> <<1, 60>>]

\* A variant of CellSprings with one diagonal per cell instead of two.
CellSpringsOneShear(w, sep, k, damp, x, y) ==
    LET i == y * w + x
        S(p1, p2, len) ==
            [k |-> k,
             damp |-> damp,
             p1 |-> p1,
             p2 |-> p2,
             rest_len |-> len]
    IN  (IF x > 0 THEN <<S(i, i - 1, sep)>> ELSE <<>>)
        \o (IF y > 0 THEN <<S(i, i - w, sep)>> ELSE <<>>)
        \o (IF x > 0 /\ y > 0
              THEN <<S(i, i - w - 1, RMul(Sqrt2, sep))>> ELSE <<>>)

\* the springs the second loop of create_cloth adds for grid cell (x, y),
\* in the order of the four add_spring calls
CellSprings(w, sep, k, damp, x, y) ==
    LET i == y * w + x
        S(p1, p2, len) ==
            [k |-> k,
             damp |-> damp,
             p1 |-> p1,
             p2 |-> p2,
             rest_len |-> len]
    IN  (IF x > 0 THEN <<S(i, i - 1, sep)>> ELSE <<>>)
        \o (IF y > 0 THEN <<S(i, i - w, sep)>> ELSE <<>>)
        \o (IF x > 0 /\ y > 0
              THEN <<S(i, i - w - 1, RMul(Sqrt2, sep))>> ELSE <<>>)
        \o (IF x < w - 1 /\ y > 0
              THEN <<S(i, i - w + 1, RMul(Sqrt2, sep))>> ELSE <<>>)

\* the springs of cells 0 .. c-1 in row-major order, as a sequence
RECURSIVE ClothSprings(_, _, _, _, _)
ClothSprings(w, sep, k, damp, c) ==
    IF c = 0 THEN <<>>
    ELSE ClothSprings(w, sep, k, damp, c - 1)
         \o CellSprings(w, sep, k, damp, (c - 1) % w, (c - 1) \div w)

\* add_spring's two push_back calls on adjacency_list, for the springs
\* 0 .. m-1 of ss in order
RECURSIVE Adjacency(_, _, _)
Adjacency(n, ss, m) ==
    IF m = 0 THEN [p \in 0 .. n - 1 |-> <<>>]
    ELSE LET a == Adjacency(n, ss, m - 1)
             s == ss[m]
             a1 == [a EXCEPT ![s.p1] = Append(@, m - 1)]
         IN  [a1 EXCEPT ![s.p2] = Append(@, m - 1)]

\* A variant of create_cloth that does not clear adjacency_list: the
\* entries of the particles that existed before keep what they held.
create_cloth_keep_adjacency(sx, sy, sz, w, h, sep, k, damp) ==
    \E n \in {IF w > 0 /\ h > 0 THEN w * h ELSE 0} :
      \E ss \in {ClothSprings(w, sep, k, damp, n)} :
        /\ pc = "idle"
        /\ particles' = [i \in 0 .. n - 1 |->
                           ClothParticle(sx, sy, sz, w, sep, i % w, i \div w)]
        /\ springs' = [j \in 0 .. Len(ss) - 1 |-> ss[j + 1]]
        /\ adjacency_list' =
             [i \in 0 .. n - 1 |->
                (IF i \in DOMAIN adjacency_list THEN adjacency_list[i]
                                                ELSE <<>>)
                \o Adjacency(n, ss, Len(ss))[i]]
        /\ call' = [op |-> "createCloth",
                    sx |-> sx,
                    sy |-> sy,
                    sz |-> sz,
                    w |-> w,
                    sep |-> sep,
                    k |-> k,
                    damp |-> damp,
                    h |-> h,
                    had |-> Size(particles)]
        /\ UNCHANGED <<config, pc, locals, over, elapsed, nsteps,
                       nupdates>>

create_cloth(sx, sy, sz, w, h, sep, k, damp) ==
    \E n \in {IF w > 0 /\ h > 0 THEN w * h ELSE 0} :
      \E ss \in {ClothSprings(w, sep, k, damp, n)} :
        /\ pc = "idle"
        /\ particles' = [i \in 0 .. n - 1 |->
                           ClothParticle(sx, sy, sz, w, sep, i % w, i \div w)]
        /\ springs' = [j \in 0 .. Len(ss) - 1 |-> ss[j + 1]]
        /\ adjacency_list' = Adjacency(n, ss, Len(ss))
        /\ call' = [op |-> "createCloth",
                    sx |-> sx,
                    sy |-> sy,
                    sz |-> sz,
                    w |-> w,
                    sep |-> sep,
                    k |-> k,
                    damp |-> damp,
                    h |-> h,
                    had |-> Size(particles)]
        /\ UNCHANGED <<config, pc, locals, over, elapsed, nsteps,
                       nupdates>>

(***************************************************************************)
(* Point mutators.                                                         *)
(***************************************************************************)
\* A variant of set_particle_pos that wraps the index into the store instead
\* of testing it.
set_particle_pos_wrapped(i, x, y, z) ==
    /\ pc = "idle"
    /\ IF Size(particles) > 0
         THEN particles' =
                [particles EXCEPT
                   ![i % Size(particles)].pos = Vec3(x, y, z),
                   ![i % Size(particles)].old_pos = Vec3(x, y, z)]
         ELSE UNCHANGED particles
    /\ call' = [p |-> Vec3(x, y, z),
                i |-> i,
                op |-> "setParticlePos"]
    /\ UNCHANGED <<springs, adjacency_list, config, pc, locals, over,
                   elapsed, nsteps, nupdates>>

set_particle_pos(i, x, y, z) ==
    /\ pc = "idle"
    /\ IF SizeLess(i, Size(particles))
         THEN particles' = [particles EXCEPT ![i].pos = Vec3(x, y, z),
                                             ![i].old_pos = Vec3(x, y, z)]
         ELSE UNCHANGED particles
    /\ call' = [p |-> Vec3(x, y, z),
                i |-> i,
                op |-> "setParticlePos"]
    /\ UNCHANGED <<springs, adjacency_list, config, pc, locals, over,
                   elapsed, nsteps, nupdates>>

\* A variant of set_pinned that writes the flag only.
set_pinned_flag_only(i, pin) ==
    /\ pc = "idle"
    /\ IF i >= 0 /\ SizeLess(i, Size(particles))
         THEN particles' =
                [particles EXCEPT ![i].is_pinned = IF pin THEN 1 ELSE 0]
         ELSE UNCHANGED particles
    /\ call' = [i |-> i,
                op |-> "setPinned",
                pin |-> pin,
                was |-> World,
                first |-> IF call.op = "setPinned" /\ call.i = i /\ call.pin
                            THEN call.was ELSE NoCall]
    /\ UNCHANGED <<springs, adjacency_list, config, pc, locals, over,
                   elapsed, nsteps, nupdates>>

set_pinned(i, pin) ==
    /\ pc = "idle"
    /\ IF i >= 0 /\ SizeLess(i, Size(particles))
         THEN particles' =
                [particles EXCEPT ![i].is_pinned = IF pin THEN 1 ELSE 0,
                                  ![i].old_pos = particles[i].pos]
         ELSE UNCHANGED particles
    /\ call' = [i |-> i,
                op |-> "setPinned",
                pin |-> pin,
                was |-> World,
                first |-> IF call.op = "setPinned" /\ call.i = i /\ call.pin
                            THEN call.was ELSE NoCall]
    /\ UNCHANGED <<springs, adjacency_list, config, pc, locals, over,
                   elapsed, nsteps, nupdates>>

is_pinned(i) ==
    /\ pc = "idle"
    /\ call' = [i |-> i,
                op |-> "isPinned",
                ret |-> IF i >= 0 /\ SizeLess(i, Size(particles))
                          THEN PinnedP(particles[i]) ELSE FALSE]
    /\ UNCHANGED <<store, config, pc, locals, over, elapsed, nsteps,
                   nupdates>>

(***************************************************************************)
(* Configuration setters.                                                  *)
(***************************************************************************)
set_sim_dt(dt) ==
    /\ pc = "idle"
    /\ sim_dt' = RMax(MinSimDt, dt)
    /\ call' = [op |-> "setSimDt", dt |-> dt]
    /\ UNCHANGED <<store, gravity, wind, global_damping, sub_steps,
                   current_solver, fixed_dt, accumulator, use_ticks, pc,
                   locals, over, elapsed, nsteps, nupdates>>

\* static_cast<SolverType>(type): SolverType has no fixed underlying type,
\* so the conversion is defined for the values 0 .. 7 of its range alone;
\* for any other int the build may keep the int as it is or leave any
\* value of the range
set_solver(type) ==
    /\ pc = "idle"
    /\ current_solver' \in {type} \cup (IF type \in Solvers THEN {}
                                                          ELSE Solvers)
    /\ call' = [op |-> "setSolver", type |-> type]
    /\ UNCHANGED <<store, gravity, wind, global_damping, sub_steps, fixed_dt,
                   accumulator, sim_dt, use_ticks, pc, locals, over, elapsed,
                   nsteps, nupdates>>

set_use_substeps(v) ==
    /\ pc = "idle"
    /\ use_ticks' = v
    /\ call' = [op |-> "set_use_substeps", v |-> v]
    /\ UNCHANGED <<store, gravity, wind, global_damping, sub_steps,
                   current_solver, fixed_dt, accumulator, sim_dt, pc, locals,
                   over, elapsed, nsteps, nupdates>>

set_gravity(x, y, z) ==
    /\ pc = "idle"
    /\ gravity' = Vec3(x, y, z)
    /\ call' = [g |-> Vec3(x, y, z),
                op |-> "setGravity"]
    /\ UNCHANGED <<store, wind, global_damping, sub_steps, current_solver,
                   fixed_dt, accumulator, sim_dt, use_ticks, pc, locals,
                   over, elapsed, nsteps, nupdates>>

set_sub_steps(steps) ==
    /\ pc = "idle"
    /\ sub_steps' = IF steps > 1 THEN steps ELSE 1
    /\ call' = [op |-> "setSubSteps", steps |-> steps]
    /\ UNCHANGED <<store, gravity, wind, global_damping, current_solver,
                   fixed_dt, accumulator, sim_dt, use_ticks, pc, locals,
                   over, elapsed, nsteps, nupdates>>

\* A variant of set_mass without the floor.
set_mass_unfloored(m) ==
    /\ pc = "idle"
    /\ particles' = [i \in DOMAIN particles |->
                       [particles[i] EXCEPT !.mass = m]]
    /\ call' = [m |-> m,
                op |-> "setMass"]
    /\ UNCHANGED <<springs, adjacency_list, config, pc, locals, over,
                   elapsed, nsteps, nupdates>>

set_mass(m) ==
    /\ pc = "idle"
    /\ particles' = [i \in DOMAIN particles |->
                       [particles[i] EXCEPT !.mass = RMax(MinMass, m)]]
    /\ call' = [m |-> m,
                op |-> "setMass"]
    /\ UNCHANGED <<springs, adjacency_list, config, pc, locals, over,
                   elapsed, nsteps, nupdates>>

\* A variant of set_spring_params that writes the stiffness into the rest
\* length as well.
set_spring_params_rest_len(k, damp) ==
    /\ pc = "idle"
    /\ springs' = [j \in DOMAIN springs |->
                     [springs[j] EXCEPT !.k = k, !.damp = damp,
                                        !.rest_len = k]]
    /\ call' = [op |-> "setSpringParams",
                k |-> k,
                damp |-> damp,
                again |-> /\ call.op = "setSpringParams"
                          /\ call.k = k /\ call.damp = damp]
    /\ UNCHANGED <<particles, adjacency_list, config, pc, locals, over,
                   elapsed, nsteps, nupdates>>

\* A variant of set_spring_params that adds its arguments to the constants
\* of each spring.
set_spring_params_added(k, damp) ==
    /\ pc = "idle"
    /\ springs' = [j \in DOMAIN springs |->
                     [springs[j] EXCEPT !.k = RAdd(@, k),
                                        !.damp = RAdd(@, damp)]]
    /\ call' = [op |-> "setSpringParams",
                k |-> k,
                damp |-> damp,
                again |-> /\ call.op = "setSpringParams"
                          /\ call.k = k /\ call.damp = damp]
    /\ UNCHANGED <<particles, adjacency_list, config, pc, locals, over,
                   elapsed, nsteps, nupdates>>

set_spring_params(k, damp) ==
    /\ pc = "idle"
    /\ springs' = [j \in DOMAIN springs |->
                     [springs[j] EXCEPT !.k = k, !.damp = damp]]
    /\ call' = [op |-> "setSpringParams",
                k |-> k,
                damp |-> damp,
                again |-> /\ call.op = "setSpringParams"
                          /\ call.k = k /\ call.damp = damp]
    /\ UNCHANGED <<particles, adjacency_list, config, pc, locals, over,
                   elapsed, nsteps, nupdates>>

(***************************************************************************)
(* Force evaluator.                                                        *)
(***************************************************************************)
apply_forces(ps) ==
    [i \in DOMAIN ps |->
        IF PinnedP(ps[i]) THEN ps[i]
        ELSE [ps[i] EXCEPT !.acc = VAdd(VAdd(@, gravity), wind)]]

\* An operator below that ends in a digit continues the one before it: the
\* locals of the C++ function that are read more than once (delta, len, dir,
\* the stage accelerations) are its parameters, so that each is written once.

\* A variant of SpringForce3 that pushes both endpoints the same way.
SpringForce3SameSign(ps, s, total_force) ==
    LET p1 == ps[s.p1]
        p2 == ps[s.p2]
        a1 == IF FreeP(p1)
                THEN VAdd(p1.acc, VMul(total_force, RDiv(One, p1.mass)))
                ELSE p1.acc
        a2 == IF FreeP(p2)
                THEN VAdd(p2.acc, VMul(total_force, RDiv(One, p2.mass)))
                ELSE p2.acc
    IN  [ps EXCEPT ![s.p1].acc = a1, ![s.p2].acc = a2]

\* solve_springs, the loop body for spring s: the two accumulations
SpringForce3(ps, s, total_force) ==
    LET p1 == ps[s.p1]
        p2 == ps[s.p2]
        a1 == IF FreeP(p1)
                THEN VSub(p1.acc, VMul(total_force, RDiv(One, p1.mass)))
                ELSE p1.acc
        a2 == IF FreeP(p2)
                THEN VAdd(p2.acc, VMul(total_force, RDiv(One, p2.mass)))
                ELSE p2.acc
    IN  [ps EXCEPT ![s.p1].acc = a1, ![s.p2].acc = a2]

\* solve_springs, the loop body for spring s: from "hooke" to total_force
SpringForce2(ps, s, len, dir) ==
    LET spring_force == RMul(RSub(len, s.rest_len), s.k)
        rel_vel == VSub(ps[s.p1].vel, ps[s.p2].vel)
        vel_along_spring == VDot(rel_vel, dir)
        damp_force == RMul(vel_along_spring, s.damp)
        total_f_mag == RAdd(spring_force, damp_force)
    IN  SpringForce3(ps, s, VMul(dir, total_f_mag))

\* solve_springs, the loop body for spring s: the test of len, and dir
SpringForce1(ps, s, delta, len) ==
    IF RLt(len, SpringEpsilon) THEN ps
    ELSE SpringForce2(ps, s, len, VMul(delta, RDiv(One, len)))

\* solve_springs, the loop body for spring s: delta
SpringForce0(ps, s, delta) == SpringForce1(ps, s, delta, VLength(delta))

\* solve_springs, the loop body for spring s
SpringForce(ps, s) ==
    SpringForce0(ps, s, VSub(ps[s.p1].pos, ps[s.p2].pos))

\* solve_springs over the springs 0 .. m-1 in order
RECURSIVE SolveSprings(_, _)
SolveSprings(ps, m) ==
    IF m = 0 THEN ps
    ELSE SpringForce(SolveSprings(ps, m - 1), springs[m - 1])

solve_springs(ps, dt) == SolveSprings(ps, Size(springs))

\* get_acceleration, the loop body for spring s: from "hooke 2" to force
IncidentForce2(s, other_p, vel, dist, dir) ==
    LET displacement == RSub(dist, s.rest_len)
        spring_force == RMul(displacement, s.k)
        rel_vel == VSub(vel, other_p.vel)
        vel_along_spring == VDot(rel_vel, dir)
        damp_force == RMul(vel_along_spring, s.damp)
    IN  VMul(dir, RNeg(RAdd(spring_force, damp_force)))

\* get_acceleration, the loop body for spring s: the test of dist, and dir;
\* a skipped spring adds nothing
IncidentForce1(s, other_p, vel, delta, dist) ==
    IF RLt(dist, SpringEpsilon) THEN VZero
    ELSE IncidentForce2(s, other_p, vel, dist, VMul(delta, RDiv(One, dist)))

\* get_acceleration, the loop body for spring s: delta
IncidentForce0(s, other_p, vel, delta) ==
    IncidentForce1(s, other_p, vel, delta, VLength(delta))

\* get_acceleration, the loop body for spring s of particle p_idx
IncidentForce(ps, p_idx, pos, vel, s) ==
    LET other_idx == IF s.p1 = p_idx THEN s.p2 ELSE s.p1
    IN  IncidentForce0(s, ps[other_idx], vel, VSub(pos, ps[other_idx].pos))

\* get_acceleration: the loop over the first m springs of my_springs
RECURSIVE SpringSum(_, _, _, _, _)
SpringSum(ps, p_idx, pos, vel, m) ==
    IF m = 0 THEN VZero
    ELSE VAdd(SpringSum(ps, p_idx, pos, vel, m - 1),
              IncidentForce(ps, p_idx, pos, vel,
                            springs[adjacency_list[p_idx][m]]))

\* the stage-local evaluator of the RK integrators; it reads the other
\* particles from ps, the vector the integrator loop is updating in place
get_acceleration(ps, p_idx, pos, vel, dt) ==
    LET field == VSub(VAdd(gravity, wind), VMul(vel, global_damping))
        total_force ==
            VAdd(field,
                 SpringSum(ps, p_idx, pos, vel, Len(adjacency_list[p_idx])))
    IN  VMul(total_force, RDiv(One, ps[p_idx].mass))

(***************************************************************************)
(* Integrators.                                                            *)
(***************************************************************************)
\* a loop "for (auto &p : particles) { if (p.is_pinned > 0.5f) continue; ..."
\* whose body Body(p) reads and writes p alone
ForEachFree(ps, Body(_)) ==
    [i \in DOMAIN ps |-> IF PinnedP(ps[i]) THEN ps[i] ELSE Body(ps[i])]

\* A variant of integrate_verlet that takes the displacement of the last
\* sub-step twice.
integrate_verlet_doubled(ps, dt) ==
    LET dt_sq == RMul(dt, dt)
        Body(p) ==
            LET temp_pos == p.pos
                vel_vec == VMul(VSub(p.pos, p.old_pos), R(2))
                pos == VAdd(VAdd(p.pos, vel_vec), VMul(p.acc, dt_sq))
            IN  [p EXCEPT !.pos = pos, !.old_pos = temp_pos,
                          !.vel = VMul(VSub(pos, temp_pos), RDiv(One, dt)),
                          !.acc = VZero]
    IN  ForEachFree(ps, Body)

integrate_verlet(ps, dt) ==
    LET dt_sq == RMul(dt, dt)
        Body(p) ==
            LET temp_pos == p.pos
                vel_vec == VMul(VSub(p.pos, p.old_pos), global_damping)
                pos == VAdd(VAdd(p.pos, vel_vec), VMul(p.acc, dt_sq))
            IN  [p EXCEPT !.pos = pos, !.old_pos = temp_pos,
                          !.vel = VMul(VSub(pos, temp_pos), RDiv(One, dt)),
                          !.acc = VZero]
    IN  ForEachFree(ps, Body)

integrate_tc_verlet(ps, dt) ==
    LET Body(p) ==
            LET dt_prev == IF RLt(p.prev_dt, MinSimDt) THEN dt ELSE p.prev_dt
                expansion == VMul(VMul(VSub(p.pos, p.old_pos),
                                       RDiv(dt, dt_prev)), global_damping)
                new_pos ==
                    VAdd(VAdd(p.pos, expansion),
                         VMul(p.acc, RMul(RMul(dt, RAdd(dt, dt_prev)),
                                          <<1, 2>>)))
            IN  [p EXCEPT !.old_pos = p.pos, !.pos = new_pos,
                          !.vel = VMul(VSub(new_pos, p.pos), RDiv(One, dt)),
                          !.prev_dt = dt, !.acc = VZero]
    IN  ForEachFree(ps, Body)

integrate_velocity_verlet_pass1(ps, dt) ==
    LET Body(p) ==
            LET vel == VAdd(p.vel, VMul(p.acc, RMul(dt, <<1, 2>>)))
                pos == VAdd(p.pos, VMul(vel, dt))
            IN  [p EXCEPT !.vel = vel, !.pos = pos, !.old_pos = pos]
    IN  ForEachFree(ps, Body)

integrate_velocity_verlet_pass2(ps, dt) ==
    LET Body(p) ==
            LET vel == VAdd(p.vel, VMul(p.acc, RMul(dt, <<1, 2>>)))
            IN  [p EXCEPT !.vel = VMul(vel, global_damping), !.acc = VZero]
    IN  ForEachFree(ps, Body)

\* Body(v), with the local v computed once, before the statements that
\* read it
Once(v, Body(_)) == CHOOSE r \in {Body(x) : x \in {v}} : TRUE

\* the last four statements of the loop bodies of integrate_rk2 and
\* integrate_rk4
RKCommit(ps, i, dt, pos, vel) ==
    [ps EXCEPT ![i] = [@ EXCEPT !.pos = pos, !.vel = vel,
                                !.old_pos = VSub(pos, VMul(vel, dt)),
                                !.acc = VZero]]

\* integrate_rk2, the loop body: p.pos and p.vel from v_mid and a2
RK2Particle2(ps, i, dt, v_mid, a2) ==
    RKCommit(ps, i, dt, VAdd(ps[i].pos, VMul(v_mid, dt)),
             VAdd(ps[i].vel, VMul(a2, dt)))

\* integrate_rk2, the loop body: x_mid, v_mid and a2 from a1
RK2Particle1(ps, i, dt, v_mid) ==
    LET x_mid == VAdd(ps[i].pos, VMul(ps[i].vel, RMul(dt, <<1, 2>>)))
    IN  Once(get_acceleration(ps, i, x_mid, v_mid, dt),
             LAMBDA a2 : RK2Particle2(ps, i, dt, v_mid, a2))

RK2Particle0(ps, i, dt, a1) ==
    Once(VAdd(ps[i].vel, VMul(a1, RMul(dt, <<1, 2>>))),
         LAMBDA v_mid : RK2Particle1(ps, i, dt, v_mid))

\* the body of the loop of integrate_rk2 for particle i
RK2Particle(ps, i, dt) ==
    IF PinnedP(ps[i]) THEN ps
    ELSE Once(get_acceleration(ps, i, ps[i].pos, ps[i].vel, dt),
              LAMBDA a1 : RK2Particle0(ps, i, dt, a1))

\* integrate_rk4, the loop body: p.pos and p.vel from the four samples
RK4Particle7(ps, i, dt, a1, v2, a2, v3, a3, v4, a4) ==
    LET x == ps[i].pos
        v == ps[i].vel
        v1 == v
        sixth == RDiv(dt, R(6))
    IN  RKCommit(ps, i, dt,
                 VAdd(x, VMul(VAdd(VAdd(VAdd(v1, VMul(v2, R(2))),
                                        VMul(v3, R(2))), v4), sixth)),
                 VAdd(v, VMul(VAdd(VAdd(VAdd(a1, VMul(a2, R(2))),
                                        VMul(a3, R(2))), a4), sixth)))

\* integrate_rk4, the loop body: x4 and a4
RK4Particle6(ps, i, dt, a1, v2, a2, v3, a3, v4) ==
    LET x4 == VAdd(ps[i].pos, VMul(v3, dt))
    IN  Once(get_acceleration(ps, i, x4, v4, dt),
             LAMBDA a4 : RK4Particle7(ps, i, dt, a1, v2, a2, v3, a3, v4, a4))

\* integrate_rk4, the loop body: v4
RK4Particle5(ps, i, dt, a1, v2, a2, v3, a3) ==
    Once(VAdd(ps[i].vel, VMul(a3, dt)),
         LAMBDA v4 : RK4Particle6(ps, i, dt, a1, v2, a2, v3, a3, v4))

\* integrate_rk4, the loop body: x3 and a3
RK4Particle4(ps, i, dt, a1, v2, a2, v3) ==
    LET x3 == VAdd(ps[i].pos, VMul(v2, RMul(dt, <<1, 2>>)))
    IN  Once(get_acceleration(ps, i, x3, v3, dt),
             LAMBDA a3 : RK4Particle5(ps, i, dt, a1, v2, a2, v3, a3))

\* integrate_rk4, the loop body: v3
RK4Particle3(ps, i, dt, a1, v2, a2) ==
    Once(VAdd(ps[i].vel, VMul(a2, RMul(dt, <<1, 2>>))),
         LAMBDA v3 : RK4Particle4(ps, i, dt, a1, v2, a2, v3))

\* integrate_rk4, the loop body: x2 and a2
RK4Particle2(ps, i, dt, a1, v2) ==
    LET v1 == ps[i].vel
        x2 == VAdd(ps[i].pos, VMul(v1, RMul(dt, <<1, 2>>)))
    IN  Once(get_acceleration(ps, i, x2, v2, dt),
             LAMBDA a2 : RK4Particle3(ps, i, dt, a1, v2, a2))

\* integrate_rk4, the loop body: v2
RK4Particle1(ps, i, dt, a1) ==
    Once(VAdd(ps[i].vel, VMul(a1, RMul(dt, <<1, 2>>))),
         LAMBDA v2 : RK4Particle2(ps, i, dt, a1, v2))

\* the body of the loop of integrate_rk4 for particle i
RK4Particle(ps, i, dt) ==
    IF PinnedP(ps[i]) THEN ps
    ELSE Once(get_acceleration(ps, i, ps[i].pos, ps[i].vel, dt),
              LAMBDA a1 : RK4Particle1(ps, i, dt, a1))

\* "for (int i = 0; i < particles.size(); ++i)" of integrate_rk2 over the
\* particles 0 .. n-1, each iteration writing particles[i] in place
RECURSIVE RK2Loop(_, _, _)
RK2Loop(ps, n, dt) ==
    IF n = 0 THEN ps
    ELSE Once(RK2Loop(ps, n - 1, dt), LAMBDA q : RK2Particle(q, n - 1, dt))

integrate_rk2(ps, dt) == RK2Loop(ps, Size(ps), dt)

\* the same loop of integrate_rk4
RECURSIVE RK4Loop(_, _, _)
RK4Loop(ps, n, dt) ==
    IF n = 0 THEN ps
    ELSE Once(RK4Loop(ps, n - 1, dt), LAMBDA q : RK4Particle(q, n - 1, dt))

integrate_rk4(ps, dt) == RK4Loop(ps, Size(ps), dt)

\* the loop of integrate_rk2 with its iterations taken in the order
\* order[1], .., order[n] instead of 0, 1, ..
RECURSIVE RK2LoopIn(_, _, _, _)
RK2LoopIn(ps, order, n, dt) ==
    IF n = 0 THEN ps
    ELSE Once(RK2LoopIn(ps, order, n - 1, dt),
              LAMBDA q : RK2Particle(q, order[n], dt))

\* the same for the loop of integrate_rk4
RECURSIVE RK4LoopIn(_, _, _, _)
RK4LoopIn(ps, order, n, dt) ==
    IF n = 0 THEN ps
    ELSE Once(RK4LoopIn(ps, order, n - 1, dt),
              LAMBDA q : RK4Particle(q, order[n], dt))

integrate_explicit_euler(ps, dt) ==
    LET Body(p) ==
            LET pos == VAdd(p.pos, VMul(p.vel, dt))
                vel == VMul(VAdd(p.vel, VMul(p.acc, dt)), global_damping)
            IN  [p EXCEPT !.pos = pos, !.vel = vel, !.old_pos = pos,
                          !.acc = VZero]
    IN  ForEachFree(ps, Body)

\* A variant of integrate_symplectic_euler that leaves the accumulated
\* acceleration in place.
integrate_symplectic_euler_keep(ps, dt) ==
    LET Body(p) ==
            LET vel == VMul(VAdd(p.vel, VMul(p.acc, dt)), global_damping)
                pos == VAdd(p.pos, VMul(vel, dt))
            IN  [p EXCEPT !.vel = vel, !.pos = pos, !.old_pos = pos]
    IN  ForEachFree(ps, Body)

integrate_symplectic_euler(ps, dt) ==
    LET Body(p) ==
            LET vel == VMul(VAdd(p.vel, VMul(p.acc, dt)), global_damping)
                pos == VAdd(p.pos, VMul(vel, dt))
            IN  [p EXCEPT !.vel = vel, !.pos = pos, !.old_pos = pos,
                          !.acc = VZero]
    IN  ForEachFree(ps, Body)

(***************************************************************************)
(* Constraint solver.                                                      *)
(***************************************************************************)
\* p.pos.y > 900
AboveGround(p) == RGt(p.pos.y, GroundY)

\* A variant of solve_constraints that moves the position back to the
\* plane and leaves the previous position where it was.
solve_constraints_pos_only(ps) ==
    [i \in DOMAIN ps |->
        IF AboveGround(ps[i])
          THEN [ps[i] EXCEPT !.pos.y = GroundY]
          ELSE ps[i]]

solve_constraints(ps) ==
    [i \in DOMAIN ps |->
        IF AboveGround(ps[i])
          THEN [ps[i] EXCEPT !.pos.y = GroundY, !.old_pos.y = GroundY]
          ELSE ps[i]]

(***************************************************************************)
(* Time-step controller.                                                   *)
(***************************************************************************)
\* the switch of step(): the integrator current_solver selects
Integrate(ps, dt) ==
    CASE current_solver = SOLVER_EXPLICIT_EULER ->
            integrate_explicit_euler(ps, dt)
      [] current_solver = SOLVER_SYMPLECTIC_EULER ->
            integrate_symplectic_euler(ps, dt)
      [] current_solver = SOLVER_VERLET -> integrate_verlet(ps, dt)
      [] current_solver = SOLVER_TIME_CORRECTED_VERLET ->
            integrate_tc_verlet(ps, dt)
      [] current_solver = SOLVER_RK2 -> integrate_rk2(ps, dt)
      [] current_solver = SOLVER_RK4 -> integrate_rk4(ps, dt)
      [] current_solver = SOLVER_IMPLICIT_EULER ->
            integrate_symplectic_euler(ps, dt)
      [] OTHER -> ps

\* the particles as the integrator of one sub-step leaves them, before any
\* constraint pass: the first pass of Velocity Verlet, or forces followed
\* by the selected integrator
AfterIntegrator(ps, dt) ==
    IF current_solver = SOLVER_VEOLCITY_VERLET
      THEN integrate_velocity_verlet_pass1(ps, dt)
      ELSE Integrate(solve_springs(apply_forces(ps), dt), dt)

\* A variant of AfterConstraints that runs the constraint pass of Velocity
\* Verlet after its second pass instead of between the two.
AfterConstraintsLast(q, dt) ==
    IF current_solver = SOLVER_VEOLCITY_VERLET
      THEN solve_constraints(
               integrate_velocity_verlet_pass2(
                   solve_springs(apply_forces(q), dt), dt))
      ELSE IF current_solver # SOLVER_RK2 /\ current_solver # SOLVER_RK4
             THEN solve_constraints(q)
             ELSE q

\* A variant of AfterConstraints that runs the constraint pass after the
\* two Runge-Kutta integrators as well.
AfterConstraintsAlways(q, dt) ==
    IF current_solver = SOLVER_VEOLCITY_VERLET
      THEN integrate_velocity_verlet_pass2(
               solve_springs(apply_forces(solve_constraints(q)), dt), dt)
      ELSE solve_constraints(q)

\* one iteration of the loop of step(), from the particles q its
\* integrator left
AfterConstraints(q, dt) ==
    IF current_solver = SOLVER_VEOLCITY_VERLET
      THEN integrate_velocity_verlet_pass2(
               solve_springs(apply_forces(solve_constraints(q)), dt), dt)
      ELSE IF current_solver # SOLVER_RK2 /\ current_solver # SOLVER_RK4
             THEN solve_constraints(q)
             ELSE q

\* one iteration of the loop of step()
SubStepBody(ps, dt) == AfterConstraints(AfterIntegrator(ps, dt), dt)

\* update(): int ticks = static_cast<int>(frame_dt / sim_dt);
\*           ticks = std::max(1, ticks);
TicksOf(frame_dt) ==
    LET t == Trunc(RDiv(frame_dt, sim_dt))
    IN  IF t > 1 THEN t ELSE 1

\* A variant of update() that keeps the remainder of frame_dt / sim_dt in
\* accumulator and spends it in the next call.
update_carry(frame_dt) ==
    /\ pc = "idle"
    /\ nupdates < MaxUpdates
    /\ IF ~use_ticks
         THEN \E t \in {Trunc(RDiv(RAdd(accumulator, frame_dt), sim_dt))} :
                /\ t <= MaxTicks
                /\ ticks' = (IF t > 1 THEN t ELSE 1)
                /\ accumulator' =
                     (IF t > 0
                        THEN RSub(RAdd(accumulator, frame_dt),
                                  RMul(R(t), sim_dt))
                        ELSE Zero)
                /\ tick_i' = 0
                /\ pc' = "ticks"
         ELSE /\ UNCHANGED <<ticks, tick_i, accumulator>>
              /\ pc' = "single"
    /\ call' = [op |-> "update", frame_dt |-> frame_dt, after |-> call.op,
                arg |-> IF call.op = "setParticlePos" THEN call
                                                      ELSE NoCall,
                pins |-> PinnedPositions,
                last_dt |-> sub_dt]
    /\ nsteps' = 0
    /\ nupdates' = nupdates + 1
    /\ UNCHANGED <<store, gravity, wind, global_damping, sub_steps,
                   current_solver, fixed_dt, sim_dt, use_ticks, sub_dt, sub_i,
                   over, elapsed>>

\* update(frame_dt), up to its first call of step()
update(frame_dt) ==
    /\ pc = "idle"
    /\ nupdates < MaxUpdates
    /\ IF ~use_ticks
         THEN /\ TicksOf(frame_dt) <= MaxTicks
              /\ ticks' = TicksOf(frame_dt)
              /\ tick_i' = 0
              /\ pc' = "ticks"
         ELSE /\ UNCHANGED <<ticks, tick_i>>
              /\ pc' = "single"
    /\ call' = [op |-> "update", frame_dt |-> frame_dt, after |-> call.op,
                arg |-> IF call.op = "setParticlePos" THEN call
                                                      ELSE NoCall,
                pins |-> PinnedPositions,
                last_dt |-> sub_dt]
    /\ nsteps' = 0
    /\ nupdates' = nupdates + 1
    /\ UNCHANGED <<store, config, sub_dt, sub_i, over, elapsed>>

\* A variant of the entry of step() without the ceiling on dt.
StepCallUnclamped ==
    /\ \/ pc = "ticks" /\ tick_i < ticks
       \/ pc = "single"
    /\ sub_dt' = RDiv(sim_dt, R(sub_steps))
    /\ sub_i' = 0
    /\ elapsed' = Zero
    /\ pc' = "step"
    /\ UNCHANGED <<store, config, ticks, tick_i, call, over, nsteps,
                   nupdates>>

\* step(sim_dt) is called: dt = std::min(dt, 0.05f); sub_dt = dt / sub_steps
StepCall ==
    /\ \/ pc = "ticks" /\ tick_i < ticks
       \/ pc = "single"
    /\ sub_dt' = RDiv(RMin(sim_dt, MaxStepDt), R(sub_steps))
    /\ sub_i' = 0
    /\ elapsed' = Zero
    /\ pc' = "step"
    /\ UNCHANGED <<store, config, ticks, tick_i, call, over, nsteps,
                   nupdates>>

\* one iteration of the loop of step()
SubStep ==
    /\ pc = "step"
    /\ sub_i < sub_steps
    /\ \E q \in {AfterIntegrator(particles, sub_dt)} :
          /\ particles' = AfterConstraints(q, sub_dt)
          /\ over' = {i \in DOMAIN q : AboveGround(q[i])}
    /\ sub_i' = sub_i + 1
    /\ elapsed' = RAdd(elapsed, sub_dt)
    /\ UNCHANGED <<springs, adjacency_list, config, pc, ticks, tick_i,
                   sub_dt, call, nsteps, nupdates>>

\* the floats of a particle that a sub-step has written, as stored
StoredParticle(p) ==
    [p EXCEPT !.pos = VRound(p.pos), !.old_pos = VRound(p.old_pos),
              !.vel = VRound(p.vel)]

\* one iteration of the loop of step() in arithmetic of limited precision:
\* exact within the iteration, and rounded where the iteration stores the
\* position, the previous position and the velocity of a particle
SubStepStored ==
    /\ pc = "step"
    /\ sub_i < sub_steps
    /\ \E q \in {AfterIntegrator(particles, sub_dt)} :
          /\ \E r \in {AfterConstraints(q, sub_dt)} :
                particles' = [i \in DOMAIN r |-> StoredParticle(r[i])]
          /\ over' = {i \in DOMAIN q : AboveGround(q[i])}
    /\ sub_i' = sub_i + 1
    /\ elapsed' = RAdd(elapsed, sub_dt)
    /\ UNCHANGED <<springs, adjacency_list, config, pc, ticks, tick_i,
                   sub_dt, call, nsteps, nupdates>>

\* A variant of the return of step() in which the single-tick branch of
\* update() repeats step() as often as the loop of the other branch would.
StepReturnRepeat ==
    /\ pc = "step"
    /\ sub_i >= sub_steps
    /\ nsteps' = nsteps + 1
    /\ IF ~use_ticks
         THEN tick_i' = tick_i + 1 /\ pc' = "ticks"
         ELSE /\ UNCHANGED tick_i
              /\ pc' = (IF nsteps + 1 < TicksOf(call.frame_dt)
                          THEN "single" ELSE "return")
    /\ UNCHANGED <<store, config, ticks, sub_dt, sub_i, call, over, elapsed,
                   nupdates>>

\* step() returns to update()
StepReturn ==
    /\ pc = "step"
    /\ sub_i >= sub_steps
    /\ nsteps' = nsteps + 1
    /\ IF ~use_ticks
         THEN tick_i' = tick_i + 1 /\ pc' = "ticks"
         ELSE UNCHANGED tick_i /\ pc' = "return"
    /\ UNCHANGED <<store, config, ticks, sub_dt, sub_i, call, over, elapsed,
                   nupdates>>

\* update() returns
UpdateReturn ==
    /\ \/ pc = "ticks" /\ tick_i >= ticks
       \/ pc = "return"
    /\ pc' = "idle"
    /\ UNCHANGED <<store, config, locals, history>>

(***************************************************************************)
(* SpecTime: the time-step controller and the setters it reads, on the     *)
(* world as constructed (no particles) and on a cloth whose particles are  *)
(* all anchors, so that the smallest time steps stay within the integers   *)
(* of the model checker.                                                   *)
(***************************************************************************)
TimeSetSimDt ==
    \E dt \in {NaN, R(-1), <<1, 100>>, <<1, 40>>, <<1, 10>>} : set_sim_dt(dt)

\* a cloth of one row of two particles, both of them anchors
TimeCreateCloth ==
    create_cloth(R(-400), R(-200), Zero, 2, 1, R(20), R(1200), R(10))

TimeSetMass ==
    \E m \in {NaN, R(-1), Zero, <<1, 20>>, R(2)} : set_mass(m)

TimeSetSubSteps ==
    \E steps \in -1 .. MaxSubStepsArg : set_sub_steps(steps)

TimeSetUseSubsteps ==
    \E v \in BOOLEAN : set_use_substeps(v)

TimeUpdate ==
    \E frame_dt \in {<<-1, 10>>, Zero, <<1, 100>>, <<1, 16>>, <<1, 4>>} :
        update(frame_dt)

NextTime ==
    \/ TimeCreateCloth
    \/ TimeSetMass
    \/ TimeSetSimDt
    \/ TimeSetSubSteps
    \/ TimeSetUseSubsteps
    \/ TimeUpdate
    \/ StepCall
    \/ SubStep
    \/ StepReturn
    \/ UpdateReturn

SpecTime == Init /\ [][NextTime]_vars

(***************************************************************************)
(* SpecStore: the topology builder and the point mutators, on grids of up  *)
(* to MaxW x MaxH particles, with the arguments of the front end           *)
(* (src/src/main.ts:396).                                                  *)
(***************************************************************************)
\* the indices handed to the point mutators: the least int, -1, the last
\* valid index (0 on a 1 x 1 grid) and the first index past the end
IndexArgs == {-IntMax - 1, -1, Size(particles) - 1, Size(particles)}

StoreCreateCloth ==
    \E w \in 1 .. MaxW, h \in 1 .. MaxH :
        create_cloth(R(-400), R(-200), Zero, w, h, R(20), R(1200), R(10))

StoreSetParticlePos ==
    \E i \in IndexArgs : set_particle_pos(i, R(5), R(950), R(7))

StoreSetPinned ==
    \E i \in IndexArgs, pin \in BOOLEAN : set_pinned(i, pin)

StoreIsPinned ==
    \E i \in IndexArgs : is_pinned(i)

\* the constants handed to setSpringParams: other than those of
\* StoreCreateCloth, and a spring without stiffness
StoreSpringParams == {<<R(600), R(5)>>, <<Zero, R(5)>>}

StoreSetSpringParams ==
    \E kd \in StoreSpringParams : set_spring_params(kd[1], kd[2])

NextStore ==
    \/ StoreCreateCloth
    \/ StoreSetSpringParams
    \/ StoreSetParticlePos
    \/ StoreSetPinned
    \/ StoreIsPinned

SpecStore == Init /\ [][NextStore]_vars

(***************************************************************************)
(* Spec: the dynamics.  The front end builds the world as createWasmSim    *)
(* does (src/src/main.ts:393-576), on a strip of two particles one unit    *)
(* apart whose top particle is the anchor and lies on or beyond the ground *)
(* plane, and then drives it with the calls of its pointer handlers and    *)
(* of its animation loop.  Gravity points towards the plane and is sized   *)
(* so that a free particle crosses it within two sub-steps; the strip, the *)
(* spring constants and the damping are chosen so that the exact           *)
(* arithmetic stays within the integers of the model checker.              *)
(***************************************************************************)
\* createWasmSim: createCloth(sx, sy, sz, w, h, sep, ..) followed by
\* setGravity(0, g, 0), setWind(0, 0, 0), setDamping(d),
\* setSpringParams(k, damp), setSubSteps(steps), setMass(m), setSolver(type)
createWasmSim(sx, sy, sz, w, h, sep, g, d, k, damp, steps, m, type) ==
    \E n \in {IF w > 0 /\ h > 0 THEN w * h ELSE 0} :
      \E ss \in {ClothSprings(w, sep, k, damp, n)} :
        /\ pc = "idle"
        /\ call = NoCall
        /\ particles' =
             [i \in 0 .. n - 1 |->
                [ClothParticle(sx, sy, sz, w, sep, i % w, i \div w)
                    EXCEPT !.mass = RMax(MinMass, m)]]
        /\ springs' = [j \in 0 .. Len(ss) - 1 |-> ss[j + 1]]
        /\ adjacency_list' = Adjacency(n, ss, Len(ss))
        /\ gravity' = Vec3(Zero, g, Zero)
        /\ wind' = VZero
        /\ global_damping' = d
        /\ sub_steps' = (IF steps > 1 THEN steps ELSE 1)
        /\ current_solver' = type
        /\ call' = [op |-> "createWasmSim", sy |-> sy, k |-> k]
        /\ UNCHANGED <<fixed_dt, accumulator, sim_dt, use_ticks, pc, locals,
                       over, elapsed, nsteps, nupdates>>

\* the solvers that advance a particle from its two positions
PositionBased == {SOLVER_VERLET, SOLVER_TIME_CORRECTED_VERLET}

\* the position of the anchor row: on the ground plane, or beyond it
AnchorY == {GroundY, R(950)}

\* spring stiffness and damping: none, or some
SpringParams == {<<Zero, Zero>>, <<R(3600), R(30)>>}

\* the damping setDamping receives: the factor 1 (no loss) where the solver
\* multiplies velocities by it, and the coefficient 0 (no drag) where the
\* solver is one of the two that hand it to get_acceleration
DampingFor(type) ==
    IF type \in {SOLVER_RK2, SOLVER_RK4} THEN Zero ELSE One

\* the spring constants setSpringParams receives: the two Runge-Kutta
\* solvers run on slack springs
SpringParamsFor(type) ==
    IF type \in {SOLVER_RK2, SOLVER_RK4} THEN {<<Zero, Zero>>}
                                          ELSE SpringParams

DynCreate ==
    \E sy \in AnchorY, type \in Solvers :
      \E kd \in SpringParamsFor(type) :
        createWasmSim(Zero, sy, Zero, 1, 2, One, R(14400), DampingFor(type),
                      kd[1], kd[2], 2, One, type)

DynSetGravity == call # NoCall /\ set_gravity(Zero, Zero, Zero)

DynSetParticlePos ==
    call # NoCall /\ set_particle_pos(1, Zero, R(890), Zero)

DynSetPinned ==
    /\ call # NoCall
    /\ \E i \in DOMAIN particles, pin \in BOOLEAN : set_pinned(i, pin)

DynUpdate == call # NoCall /\ update(<<1, 60>>)

Next ==
    \/ DynCreate
    \/ DynSetGravity
    \/ DynSetParticlePos
    \/ DynSetPinned
    \/ DynUpdate
    \/ StepCall
    \/ SubStep
    \/ StepReturn
    \/ UpdateReturn

Spec == Init /\ [][Next]_vars

(***************************************************************************)
(* SpecGui: the handlers of the front end's solver folder and its          *)
(* animation loop, calling the world through the JavaScript object the     *)
(* bindings build for it.                                                  *)
(***************************************************************************)
\* the method names EMSCRIPTEN_BINDINGS registers on class PhysicsWorld
Bindings ==
    {"update", "createCloth", "setSolver", "isPinned", "getPPtr", "getSPtr",
     "getPCount", "getSCount", "setParticlePos", "setGravity", "setWind",
     "setDamping", "setSubSteps", "setSpringParams", "setPinned", "setMass",
     "setFixedDt", "setSimDt", "set_use_substeps"}

\* the method names interface PhysicsWorld declares
InterfaceMethods ==
    {"update", "createCloth", "getPPtr", "getSPtr", "getPCount", "getSCount",
     "setParticlePos", "setGravity", "setWind", "setDamping", "setSubSteps",
     "setSpringParams", "setMass", "setPinned", "setSolver", "isPinned",
     "setFixedDt", "setSimDt", "set_use_ticks", "delete"}

\* the methods every bound class has without a binding of its own
HandleMethods == {"delete"}

\* world[name](v) for a boolean v: the one binding that takes a boolean is
\* "set_use_substeps"; a name the object does not have is undefined, and
\* calling it throws a TypeError before anything reaches the world
InvokeBool(name, v) ==
    IF name \in Bindings
      THEN name = "set_use_substeps" /\ set_use_substeps(v)
      ELSE /\ pc = "idle"
           /\ call' = [op |-> name, v |-> v, threw |-> TRUE]
           /\ UNCHANGED <<store, config, pc, locals, over, elapsed, nsteps,
                          nupdates>>

\* folderSolver.add(params, 'useTicks').onChange(v => world.set_use_ticks(v))
GuiUseTicksOnChange == \E v \in BOOLEAN : InvokeBool("set_use_ticks", v)

\* the same switch through the name the bindings register
GuiSetUseSubsteps == \E v \in BOOLEAN : InvokeBool("set_use_substeps", v)

NextGui ==
    \/ GuiUseTicksOnChange
    \/ GuiSetUseSubsteps
    \/ TimeSetSimDt
    \/ TimeSetSubSteps
    \/ TimeUpdate
    \/ StepCall
    \/ SubStep
    \/ StepReturn
    \/ UpdateReturn

SpecGui == Init /\ [][NextGui]_vars

(***************************************************************************)
(* SpecFree: one free particle and no spring.  The front end's calls build *)
(* a 1 x 1 cloth far from the ground plane, whose particle is the anchor,  *)
(* and release it with setPinned(0, false).  Gravity is either zero or     *)
(* sized so that a sub-step of 1/120 adds one unit of displacement.        *)
(***************************************************************************)
\* gravity.y handed to setGravity
FreeGravity == {Zero, R(14400)}

FreeCreate ==
    \E type \in Solvers, g \in FreeGravity :
        createWasmSim(Zero, Zero, Zero, 1, 1, One, g, DampingFor(type),
                      Zero, Zero, 2, One, type)

FreeSetPinned ==
    call # NoCall /\ \E pin \in BOOLEAN : set_pinned(0, pin)

FreeSetGravity ==
    call # NoCall /\ \E g \in FreeGravity : set_gravity(Zero, g, Zero)

FreeSetMass == call # NoCall /\ set_mass(R(2))

FreeUpdate == call # NoCall /\ update(<<1, 60>>)

NextFree ==
    \/ FreeCreate
    \/ FreeSetMass
    \/ FreeSetPinned
    \/ FreeSetGravity
    \/ FreeUpdate
    \/ StepCall
    \/ SubStep
    \/ StepReturn
    \/ UpdateReturn

SpecFree == Init /\ [][NextFree]_vars

(***************************************************************************)
(* SpecRK: the two Runge-Kutta solvers on a strip of two particles joined  *)
(* by a live spring, without gravity and without drag.  The front end      *)
(* stretches the spring by moving particle 1 and can release the anchor.   *)
(* The stiffness is sized so that k * dt^2 / m = 1 at a sub-step of 1/120. *)
(***************************************************************************)
\* the sub-step count setSubSteps receives: RK4, whose four stages divide
\* by 2 and by 6, runs one sub-step per update() to stay within the integers
RKSubSteps(type) == IF type = SOLVER_RK4 THEN 1 ELSE 2

RKCreate ==
    \E type \in {SOLVER_RK2, SOLVER_RK4} :
        createWasmSim(Zero, Zero, Zero, 1, 2, One, Zero, Zero, R(14400),
                      Zero, RKSubSteps(type), One, type)

RKSetParticlePos ==
    call # NoCall /\ set_particle_pos(1, Zero, R(-2), Zero)

RKSetPinned ==
    /\ call # NoCall
    /\ \E i \in DOMAIN particles, pin \in BOOLEAN : set_pinned(i, pin)

RKUpdate == call # NoCall /\ update(<<1, 60>>)

NextRK ==
    \/ RKCreate
    \/ RKSetParticlePos
    \/ RKSetPinned
    \/ RKUpdate
    \/ StepCall
    \/ SubStep
    \/ StepReturn
    \/ UpdateReturn

SpecRK == Init /\ [][NextRK]_vars

(***************************************************************************)
(* SpecEnergy: an oscillator.  A strip of two particles, the anchor pinned *)
(* and the other hanging on a soft spring (k * dt^2 / m = 1/100 at a       *)
(* sub-step of 1/120), without gravity, wind or damping, under the three   *)
(* solvers that keep an explicit velocity and multiply it by the damping   *)
(* factor.  The front end sets sim_dt = 1/20 with six sub-steps, stretches *)
(* the spring to twice its rest length and lets the world run for 18       *)
(* sub-steps per update().  The exact rationals of such a run outgrow the  *)
(* integers of the model checker, so the sub-steps of this specification   *)
(* store their results in limited precision.                               *)
(***************************************************************************)
EnergySolvers ==
    {SOLVER_EXPLICIT_EULER, SOLVER_SYMPLECTIC_EULER, SOLVER_VEOLCITY_VERLET}

EnergyCreate ==
    \E type \in EnergySolvers :
        createWasmSim(Zero, Zero, Zero, 1, 2, One, Zero, One, R(144), Zero,
                      6, One, type)

EnergySetSimDt == call # NoCall /\ set_sim_dt(<<1, 20>>)

EnergySetParticlePos ==
    call # NoCall /\ set_particle_pos(1, Zero, R(-2), Zero)

EnergyUpdate == call # NoCall /\ update(<<3, 20>>)

NextEnergy ==
    \/ EnergyCreate
    \/ EnergySetSimDt
    \/ EnergySetParticlePos
    \/ EnergyUpdate
    \/ StepCall
    \/ SubStepStored
    \/ StepReturn
    \/ UpdateReturn

SpecEnergy == Init /\ [][NextEnergy]_vars

(***************************************************************************)
(* SpecTC: the two position-based solvers on one free particle without a   *)
(* spring, under sub-steps of changing duration.  The front end builds the *)
(* particle as in SpecFree, selects Verlet or time-corrected Verlet, and   *)
(* between two update() calls can switch gravity off, change the sub-step  *)
(* duration through setSimDt and setSubSteps, and select the other solver. *)
(***************************************************************************)
TCCreate ==
    \E type \in PositionBased, g \in FreeGravity :
        createWasmSim(Zero, Zero, Zero, 1, 1, One, g, One, Zero, Zero, 2, One,
                      type)

TCSetPinned == call # NoCall /\ \E pin \in BOOLEAN : set_pinned(0, pin)

TCSetGravity == call # NoCall /\ set_gravity(Zero, Zero, Zero)

TCSetSimDt == call # NoCall /\ set_sim_dt(<<1, 30>>)

TCSetSubSteps == call # NoCall /\ \E steps \in {1, 3} : set_sub_steps(steps)

TCSetSolver ==
    call # NoCall /\ \E type \in PositionBased : set_solver(type)

TCUpdate == call # NoCall /\ update(<<1, 60>>)

NextTC ==
    \/ TCCreate
    \/ TCSetPinned
    \/ TCSetGravity
    \/ TCSetSimDt
    \/ TCSetSubSteps
    \/ TCSetSolver
    \/ TCUpdate
    \/ StepCall
    \/ SubStep
    \/ StepReturn
    \/ UpdateReturn

SpecTC == Init /\ [][NextTC]_vars

(***************************************************************************)
(* SpecSpring: a strip of two particles joined by a damped spring, without *)
(* gravity and with a damping of 1, under the two Euler solvers.  The      *)
(* front end                                                               *)
(* moves particle 1 onto the anchor or away from it and pins or releases   *)
(* either particle.  Stiffness and damping are sized so that               *)
(* k * dt^2 / m = 1 and damp * dt / m = 1 at a sub-step of 1/120.          *)
(***************************************************************************)
SpringSolvers == {SOLVER_EXPLICIT_EULER, SOLVER_SYMPLECTIC_EULER}

SpringCreate ==
    \E type \in SpringSolvers :
        createWasmSim(Zero, Zero, Zero, 1, 2, One, Zero, One, R(14400),
                      R(120), 2, One, type)

SpringSetParticlePos ==
    /\ call # NoCall
    /\ \E y \in {0, -2} : set_particle_pos(1, Zero, R(y), Zero)

SpringSetPinned ==
    /\ call # NoCall
    /\ \E i \in DOMAIN particles, pin \in BOOLEAN : set_pinned(i, pin)

SpringUpdate == call # NoCall /\ update(<<1, 60>>)

NextSpring ==
    \/ SpringCreate
    \/ SpringSetParticlePos
    \/ SpringSetPinned
    \/ SpringUpdate
    \/ StepCall
    \/ SubStep
    \/ StepReturn
    \/ UpdateReturn

SpecSpring == Init /\ [][NextSpring]_vars

(***************************************************************************)
(* SpecSolver: setSolver with any int.  One free particle without a spring *)
(* falls without damping; between update() calls the client passes        *)
(* setSolver an index of the enumeration or one outside it.                *)
(***************************************************************************)
\* the ints handed to setSolver: below the enumeration, in it, and above it
SolverArgs == {-1, SOLVER_VERLET, 8}

SolverCreate ==
    createWasmSim(Zero, Zero, Zero, 1, 1, One, R(14400), Zero, Zero, Zero, 2,
                  One, SOLVER_VERLET)

SolverSetPinned == call # NoCall /\ \E pin \in BOOLEAN : set_pinned(0, pin)

SolverSetSolver == call # NoCall /\ \E type \in SolverArgs : set_solver(type)

SolverUpdate == call # NoCall /\ update(<<1, 60>>)

NextSolver ==
    \/ SolverCreate
    \/ SolverSetPinned
    \/ SolverSetSolver
    \/ SolverUpdate
    \/ StepCall
    \/ SubStep
    \/ StepReturn
    \/ UpdateReturn

SpecSolver == Init /\ [][NextSolver]_vars

(***************************************************************************)
(* Claims.                                                                 *)
(***************************************************************************)
\* C4: setParticlePos, setPinned and isPinned with an index that is negative
\* or not below the particle count change no particle, spring or
\* configuration value, and isPinned then returns false.
C4_OutOfRangeIgnored ==
    [][(/\ call'.op \in {"setParticlePos", "setPinned", "isPinned"}
        /\ (call'.i < 0 \/ call'.i >= Size(particles)))
          => /\ UNCHANGED <<store, config>>
             /\ call'.op = "isPinned" => call'.ret = FALSE]_vars

C4_Witness ==
    /\ call.op = "isPinned"
    /\ call.i = -1
    /\ Size(particles) > 0
    /\ \E i \in DOMAIN particles : PinnedP(particles[i])

\* the number of springs of a w x h grid: structural links plus both diagonals
SpringCount(w, h) == (w - 1) * h + w * (h - 1) + 2 * (w - 1) * (h - 1)

\* C9: createCloth with w >= 1 and h >= 1 leaves exactly w*h particles and
\* (w-1)*h + w*(h-1) + 2*(w-1)*(h-1) springs, whatever the store held before.
C9_ClothCounts ==
    (call.op = "createCloth" /\ call.w >= 1 /\ call.h >= 1)
        => /\ Size(particles) = call.w * call.h
           /\ Size(springs) = SpringCount(call.w, call.h)
           /\ (call.w = 4 /\ call.h = 3) => Size(particles) = 12

\* a 4 x 3 cloth built over an existing cloth of another size
C9_Witness ==
    /\ call.op = "createCloth" /\ call.w = 4 /\ call.h = 3
    /\ call.had = 2
    /\ Size(springs) = 29

\* C10: after createCloth with w >= 2 and h >= 1 exactly the particles 0 and
\* w-1 are pinned, and particle y*w + x lies at (sx + x*sep, sy - y*sep, sz)
\* with previous position equal to position and zero velocity.
C10_ClothLayout ==
    (call.op = "createCloth" /\ call.w >= 2 /\ call.h >= 1)
        => /\ {i \in DOMAIN particles : PinnedP(particles[i])}
                = {0, call.w - 1}
           /\ \A i \in DOMAIN particles : particles[i].is_pinned \in {0, 1}
           /\ \A x \in 0 .. call.w - 1, y \in 0 .. call.h - 1 :
                LET p == particles[y * call.w + x]
                IN  /\ p.pos = Vec3(RAdd(call.sx, RMul(R(x), call.sep)),
                                    RSub(call.sy, RMul(R(y), call.sep)),
                                    call.sz)
                    /\ p.old_pos = p.pos
                    /\ p.vel = VZero

\* a 4 x 3 cloth: the top row has two particles that are not corners
C10_Witness ==
    /\ call.op = "createCloth" /\ call.w = 4 /\ call.h = 3
    /\ PinnedP(particles[3]) /\ FreeP(particles[1]) /\ FreeP(particles[2])
    /\ particles[11].pos = Vec3(R(-340), R(-240), Zero)

\* floor(a) and max(a, b) on integers
Floor(a) == a[1] \div a[2]
Max(a, b) == IF a > b THEN a ELSE b

\* update() has returned and no other call was made since
Updated == pc = "idle" /\ call.op = "update"

\* C6: in tick mode (the branch of update() that derives ticks, taken while
\* use_ticks is false) update(frame_dt) has called step(sim_dt) exactly
\* max(1, floor(frame_dt / sim_dt)) times when it returns, whatever calls
\* came before it.
C6_TickCount ==
    (Updated /\ ~use_ticks)
        => nsteps = Max(1, Floor(RDiv(call.frame_dt, sim_dt)))

\* the second of two updates by 1/16 at sim_dt = 1/40: each leaves half a
\* tick unspent, and the second still takes two steps
C6_Witness ==
    /\ Updated /\ ~use_ticks
    /\ nupdates = 2
    /\ call.after = "update"
    /\ call.frame_dt = <<1, 16>> /\ sim_dt = <<1, 40>>
    /\ nsteps = 2

\* C7: in single-tick mode (use_ticks true) update(frame_dt) has called
\* step(sim_dt) exactly once when it returns, for every frame_dt, and that
\* step covered min(sim_dt, 1/20), which frame_dt does not enter.
C7_SingleTick ==
    (Updated /\ use_ticks)
        => /\ nsteps = 1
           /\ elapsed = RMin(sim_dt, MaxStepDt)

\* a frame of 25 times sim_dt that took one step
C7_Witness ==
    /\ Updated /\ use_ticks
    /\ call.frame_dt = <<1, 4>> /\ sim_dt = <<1, 100>>
    /\ nsteps = 1

\* C8: within step(dt) every sub-step lasts min(dt, 1/20) / sub_steps, the
\* loop is left after exactly sub_steps sub-steps, and their durations then
\* sum to min(dt, 1/20); dt is sim_dt, the only argument update() passes.
C8_SubStepSum ==
    pc = "step"
        => /\ sub_steps >= 1
           /\ sub_i <= sub_steps
           /\ sub_dt = RDiv(RMin(sim_dt, MaxStepDt), R(sub_steps))
           /\ elapsed = RMul(R(sub_i), sub_dt)
           /\ sub_i = sub_steps => elapsed = RMin(sim_dt, MaxStepDt)

\* the end of a step whose dt = 1/10 was cut to 1/20, in eight sub-steps
C8_Witness ==
    /\ pc = "step"
    /\ sim_dt = <<1, 10>>
    /\ sub_steps = 8 /\ sub_i = 8
    /\ elapsed = <<1, 20>>

\* C1: across the step() calls of an update(), under each of the eight
\* solvers, every particle that is pinned lies where it lay when update()
\* was called (no other call can come in between).
C1_PinnedFixed ==
    (call.op = "update" /\ pc # "step" /\ current_solver \in Solvers)
        => \A i \in DOMAIN call.pins : particles[i].pos = call.pins[i]

\* the solvers whose sub-steps end with solve_constraints
NonRK == Solvers \ {SOLVER_RK2, SOLVER_RK4}

\* C2: under a solver other than RK2 and RK4, at the end of every sub-step
\* of step() no particle is beyond y = 900, and a particle the integrator
\* had put beyond it has position.y = 900 and previous position.y = 900.
C2_GroundClamp ==
    (pc = "step" /\ sub_i > 0 /\ current_solver \in NonRK)
        => \A i \in DOMAIN particles :
              /\ RLe(particles[i].pos.y, GroundY)
              /\ i \in over => /\ particles[i].pos.y = GroundY
                               /\ particles[i].old_pos.y = GroundY

\* under Velocity Verlet a free particle that started below the plane was
\* carried beyond it and put back
C2_Witness ==
    /\ pc = "step" /\ sub_i > 0
    /\ current_solver = SOLVER_VEOLCITY_VERLET
    /\ 1 \in over /\ FreeP(particles[1])
    /\ particles[1].pos.y = GroundY /\ particles[1].old_pos.y = GroundY
    /\ particles[1].vel.y # Zero

\* no spring acts on particle i
NoSpringForce(i) ==
    \A j \in DOMAIN springs :
        (springs[j].p1 = i \/ springs[j].p2 = i)
            => springs[j].k = Zero /\ springs[j].damp = Zero

\* C3: after setParticlePos(i, p) on a valid index position and previous
\* position of particle i are p; and if particle i is free, gravity and wind
\* are zero and no spring acts on it, then after the first step() of the
\* update() that follows the write, under each of the eight solvers,
\* particle i is still at p.
C3_WriteCancelsMomentum ==
    /\ (call.op = "setParticlePos" /\ call.i \in DOMAIN particles)
          => /\ particles[call.i].pos = call.p
             /\ particles[call.i].old_pos = call.p
    /\ (/\ call.op = "update" /\ call.after = "setParticlePos"
        /\ nsteps = 1 /\ pc # "step"
        /\ call.arg.i \in DOMAIN particles
        /\ FreeP(particles[call.arg.i])
        /\ gravity = VZero /\ wind = VZero
        /\ NoSpringForce(call.arg.i)
        /\ current_solver \in Solvers)
          => particles[call.arg.i].pos = call.arg.p

\* C5: after setPinned(i, true) immediately followed by setPinned(i, false)
\* on a valid index, the world is the one the first call found, except that
\* particle i is unpinned and its previous position is its position.
C5_RePin ==
    (/\ call.op = "setPinned" /\ ~call.pin
     /\ call.first # NoCall
     /\ call.i \in DOMAIN particles)
        => World = [call.first EXCEPT
                      !.particles[call.i].is_pinned = 0,
                      !.particles[call.i].old_pos =
                          call.first.particles[call.i].pos]

\* a free particle in motion (its previous position differed from its
\* position) with a stretched spring was pinned and released
C5_Witness ==
    /\ call.op = "setPinned" /\ ~call.pin /\ call.i = 1
    /\ call.first # NoCall
    /\ FreeP(call.first.particles[1])
    /\ call.first.particles[1].old_pos # call.first.particles[1].pos
    /\ call.first.particles[1].vel # VZero
    /\ FreeP(particles[1])
    /\ particles[1].old_pos = particles[1].pos
    /\ springs[0].k # Zero

\* one iteration of the loop of step() is taken
SubStepTaken == pc = "step" /\ sub_i' = sub_i + 1

\* the world holds one particle, which is free, and no spring
OneFreeParticle ==
    /\ DOMAIN particles = {0}
    /\ Size(springs) = 0
    /\ FreeP(particles[0])

\* the velocity v for which the previous position of p is p.pos - v * dt
VelocityOf(p, dt) == VMul(VSub(p.pos, p.old_pos), RDiv(One, dt))

\* C11: under Verlet, and under time-corrected Verlet when the particle's
\* stored previous step duration equals dt, a sub-step of duration dt on a
\* single free particle without springs, with zero gravity and wind and
\* damping factor 1, that does not carry it beyond the ground plane, moves
\* the particle by exactly v * dt, where previous position = position - v * dt.
C11_VerletConstantVelocity ==
    [][(/\ SubStepTaken
        /\ OneFreeParticle
        /\ current_solver \in {SOLVER_VERLET, SOLVER_TIME_CORRECTED_VERLET}
        /\ current_solver = SOLVER_TIME_CORRECTED_VERLET
              => particles[0].prev_dt = sub_dt
        /\ gravity = VZero /\ wind = VZero /\ global_damping = One
        /\ 0 \notin over')
          => particles'[0].pos =
               VAdd(particles[0].pos,
                    VMul(VelocityOf(particles[0], sub_dt), sub_dt))]_vars

\* a particle that fell for a whole update() and then coasts under
\* time-corrected Verlet with gravity switched off: 5/2 units per sub-step
C11_Witness ==
    /\ pc = "step" /\ sub_i = 2 /\ nupdates = 2
    /\ OneFreeParticle
    /\ current_solver = SOLVER_TIME_CORRECTED_VERLET
    /\ gravity = VZero /\ global_damping = One
    /\ particles[0].prev_dt = sub_dt
    /\ particles[0].pos.y = R(9)
    /\ particles[0].old_pos.y = <<13, 2>>

\* C12: setSpringParams(k, d) sets stiffness k and damping d on every spring
\* and changes no particle, no other field of a spring, no adjacency entry
\* and no configuration value; a second call with the same values right
\* after the first changes nothing at all, so the world the next step()
\* starts from is the one a single call leaves.
C12_SpringParamsIdempotent ==
    [][call'.op = "setSpringParams"
        => /\ DOMAIN springs' = DOMAIN springs
           /\ \A j \in DOMAIN springs :
                springs'[j] = [springs[j] EXCEPT !.k = call'.k,
                                                 !.damp = call'.damp]
           /\ UNCHANGED <<particles, adjacency_list, config, pc, locals>>
           /\ call'.again => UNCHANGED <<store, config, pc, locals>>]_vars

\* the second of two equal calls on a 4 x 3 cloth, with constants other than
\* those createCloth gave the springs
C12_Witness ==
    /\ call.op = "setSpringParams" /\ call.again
    /\ call.k = R(600) /\ call.damp = R(5)
    /\ Size(springs) = 29
    /\ \A j \in DOMAIN springs :
          springs[j].k = R(600) /\ springs[j].damp = R(5)
    /\ springs[28].rest_len = RMul(Sqrt2, R(20))

\* C13: in every state reachable by createCloth, setMass, setSimDt,
\* setSubSteps and update calls, whatever their arguments (NaN included),
\* every particle's mass is a number of at least 0.1, sim_dt is a number of
\* at least 1e-5, sub_steps is at least 1, and inside step() the sub-step
\* duration is positive and sub_steps of them cover at most 0.05: no
\* divisor of step() is zero.
C13_Floors ==
    /\ \A i \in DOMAIN particles :
          IsNumber(particles[i].mass) /\ RLe(MinMass, particles[i].mass)
    /\ IsNumber(sim_dt) /\ RLe(MinSimDt, sim_dt)
    /\ sub_steps >= 1
    /\ pc = "step"
          => /\ IsNumber(sub_dt) /\ RGt(sub_dt, Zero)
             /\ RLe(RMul(sub_dt, R(sub_steps)), MaxStepDt)

\* inside step(), after each of the three setters had to raise its argument
C13_Witness ==
    /\ pc = "step" /\ sub_i = 1
    /\ Size(particles) = 2
    /\ \A i \in DOMAIN particles : particles[i].mass = MinMass
    /\ sim_dt = MinSimDt
    /\ sub_steps = 1
    /\ sub_dt = MinSimDt


\* C14: every method interface PhysicsWorld declares is a method of the
\* object the bindings build, and the front end's call set_use_ticks(v)
\* returns normally and leaves update() in the mode v selects.
C14_ModeSetterBound ==
    /\ InterfaceMethods \subseteq Bindings \cup HandleMethods
    /\ call.op = "set_use_ticks"
          => "threw" \notin DOMAIN call /\ use_ticks = call.v

\* the acceleration the force pass of a sub-step accumulates for particle i
ForceAcc(i) == solve_springs(apply_forces(particles), sub_dt)[i].acc

\* C16: under Velocity Verlet with damping factor 1, a sub-step of duration
\* dt that follows another sub-step of the same step() call, on a single
\* free particle without springs in the constant field a = gravity + wind
\* and away from the ground plane, leaves the particle with velocity
\* v + a * dt (two half-kicks of a * dt / 2 each).
C16_TwoHalfKicks ==
    [][(/\ SubStepTaken /\ sub_i > 0
        /\ OneFreeParticle
        /\ current_solver = SOLVER_VEOLCITY_VERLET
        /\ global_damping = One
        /\ 0 \notin over')
          => particles'[0].vel =
               VAdd(particles[0].vel, VMul(VAdd(gravity, wind), sub_dt))]_vars

\* C17: under the Implicit Euler solver (6) a sub-step of duration dt takes
\* a free particle with accumulated acceleration acc, away from the ground
\* plane, to vel = (vel + acc * dt) / (1 + dt) and pos = pos + vel * dt,
\* whatever the global damping factor is.
C17_ImplicitEuler ==
    [][(/\ SubStepTaken
        /\ OneFreeParticle
        /\ current_solver = SOLVER_IMPLICIT_EULER
        /\ 0 \notin over')
          => /\ particles'[0].vel =
                  VMul(VAdd(particles[0].vel, VMul(ForceAcc(0), sub_dt)),
                       RDiv(One, RAdd(One, sub_dt)))
             /\ particles'[0].pos =
                  VAdd(particles[0].pos, VMul(particles'[0].vel, sub_dt))]_vars

\* the solvers whose sub-steps end with the constraint pass itself
ClampLast == NonRK \ {SOLVER_VEOLCITY_VERLET}

\* C18: a particle the constraint pass has just put back on the ground
\* plane has no vertical velocity: neither position.y - previous position.y
\* nor velocity.y, the one the velocity-based integrators and the spring
\* damping read in the next sub-step, differs from zero.
C18_ClampStopsParticle ==
    (pc = "step" /\ sub_i > 0 /\ current_solver \in ClampLast)
        => \A i \in over :
              /\ RSub(particles[i].pos.y, particles[i].old_pos.y) = Zero
              /\ particles[i].vel.y = Zero

\* the orders in which a loop can take the particles 0 .. n-1
Orders(n) ==
    {o \in [1 .. n -> 0 .. n - 1] : \A a, b \in 1 .. n : o[a] = o[b] => a = b}

\* the integrator pass of the selected solver with the iterations of its
\* loop taken in the given order; the bodies of the loops other than those
\* of integrate_rk2 and integrate_rk4 refer to their own particle alone
IntegrateIn(ps, order, dt) ==
    CASE current_solver = SOLVER_RK2 -> RK2LoopIn(ps, order, Len(order), dt)
      [] current_solver = SOLVER_RK4 -> RK4LoopIn(ps, order, Len(order), dt)
      [] OTHER -> AfterIntegrator(particles, dt)

\* C19: the particles an integrator pass leaves are the same in whatever
\* order its loop takes the particles.
C19_OrderIndependent ==
    (pc = "step" /\ sub_i < sub_steps /\ current_solver \in Solvers)
        => \A order \in Orders(Size(particles)) :
              IntegrateIn(solve_springs(apply_forces(particles), sub_dt),
                          order, sub_dt)
                = AfterIntegrator(particles, sub_dt)

\* C20: for a free particle i, get_acceleration at the particle's own
\* position and velocity returns the acceleration that apply_forces
\* followed by solve_springs accumulates for i in the same state (the
\* evaluator is an operator of the state and cannot change it).
C20_EvaluatorAgrees ==
    pc = "step"
        => \A i \in DOMAIN particles :
              FreeP(particles[i])
                => get_acceleration(particles, i, particles[i].pos,
                                    particles[i].vel, sub_dt)
                     = ForceAcc(i)

\* the kinetic energy of the particles 0 .. n-1 of ps
RECURSIVE KineticEnergy(_, _)
KineticEnergy(ps, n) ==
    IF n = 0 THEN Zero
    ELSE RAdd(KineticEnergy(ps, n - 1),
              RMul(RMul(<<1, 2>>, ps[n - 1].mass),
                   VDot(ps[n - 1].vel, ps[n - 1].vel)))

\* the elastic energy of the springs 0 .. m-1 between the particles ps
RECURSIVE PotentialEnergy(_, _)
PotentialEnergy(ps, m) ==
    IF m = 0 THEN Zero
    ELSE LET s == springs[m - 1]
             d == RSub(VLength(VSub(ps[s.p1].pos, ps[s.p2].pos)), s.rest_len)
         IN  RAdd(PotentialEnergy(ps, m - 1),
                  RMul(RMul(<<1, 2>>, s.k), RMul(d, d)))

Energy(ps) ==
    RAdd(KineticEnergy(ps, Size(ps)), PotentialEnergy(ps, Size(springs)))

\* the largest drift taken for small: a quarter of the initial energy
DriftTolerance == <<1, 4>>

\* the energy the world had when setParticlePos had stretched the spring,
\* during the first update() after it: the particles were at rest
InitialEnergy ==
    PotentialEnergy([particles EXCEPT ![call.arg.i].pos = call.arg.p],
                    Size(springs))

\* C15: on two particles joined by one spring, without damping, gravity or
\* wind, at sub-steps of 1/120: under symplectic Euler and Velocity Verlet
\* the kinetic plus potential energy after every sub-step is within a
\* small drift of the initial energy, and under explicit Euler it does not
\* decrease from one sub-step to the next.
C15_EnergyDrift ==
    [][(/\ SubStepTaken
        /\ call.op = "update" /\ nupdates = 1
        /\ call.after = "setParticlePos"
        /\ Size(particles) = 2 /\ Size(springs) = 1
        /\ springs[0].damp = Zero
        /\ gravity = VZero /\ wind = VZero /\ global_damping = One
        /\ sub_dt = <<1, 120>>)
          => /\ current_solver \in {SOLVER_SYMPLECTIC_EULER,
                                     SOLVER_VEOLCITY_VERLET}
                  => /\ RLe(Energy(particles'),
                            RMul(InitialEnergy, RAdd(One, DriftTolerance)))
                     /\ RLe(RMul(InitialEnergy, RSub(One, DriftTolerance)),
                            Energy(particles'))
             /\ current_solver = SOLVER_EXPLICIT_EULER
                  => RLe(Energy(particles), Energy(particles'))]_vars

\* the particles with the velocity field of each replaced by the velocity
\* its two positions imply over a sub-step of duration dt
WithDerivedVelocity(ps, dt) ==
    [i \in DOMAIN ps |-> [ps[i] EXCEPT !.vel = VelocityOf(ps[i], dt)]]

\* C21: under Verlet and time-corrected Verlet the force pass of a sub-step
\* of duration dt accumulates, for every particle, the acceleration that
\* spring damping computed from the relative velocity
\* (position - previous position) / dt of the endpoints gives.
C21_DampingFromPositions ==
    (pc = "step" /\ sub_i < sub_steps /\ current_solver \in PositionBased)
        => \A i \in DOMAIN particles :
              ForceAcc(i) =
                solve_springs(
                    apply_forces(WithDerivedVelocity(particles, sub_dt)),
                    sub_dt)[i].acc

\* the solvers whose sub-step is one integrator call
SinglePass == Solvers \ {SOLVER_VEOLCITY_VERLET}

\* C22: a sub-step under a solver other than Velocity Verlet leaves the
\* particles that result from accumulating the field forces, then the
\* spring forces, then running the selected integrator on the result, and
\* then, for the solvers 0, 1, 2, 3 and 6, the constraint pass; under RK2
\* and RK4 no constraint pass follows.
C22_PassOrder ==
    [][(SubStepTaken /\ current_solver \in SinglePass)
          => \E q \in {Integrate(solve_springs(apply_forces(particles),
                                               sub_dt), sub_dt)} :
                particles' = IF current_solver \in {SOLVER_RK2, SOLVER_RK4}
                               THEN q
                               ELSE solve_constraints(q)]_vars

\* under RK2 a free particle has crossed the ground plane and stays beyond
\* it: no constraint pass has put it back
C22_Witness ==
    /\ pc = "step" /\ sub_i = 2
    /\ current_solver = SOLVER_RK2
    /\ 1 \in over /\ FreeP(particles[1])
    /\ RGt(particles[1].pos.y, GroundY)

\* C23: a sub-step under Velocity Verlet leaves the particles that result
\* from the first integration pass, then the constraint pass, then the
\* accumulation of field and spring forces, then the second integration
\* pass, and nothing after it.
C23_VelocityVerletShape ==
    [][(SubStepTaken /\ current_solver = SOLVER_VEOLCITY_VERLET)
          => particles' =
               integrate_velocity_verlet_pass2(
                   solve_springs(
                       apply_forces(
                           solve_constraints(
                               integrate_velocity_verlet_pass1(particles,
                                                               sub_dt))),
                       sub_dt),
                   sub_dt)]_vars

\* the first pass carried a free particle on a live spring beyond the
\* ground plane, and the second pass has run on the particle put back
C23_Witness ==
    /\ pc = "step" /\ sub_i = 2
    /\ current_solver = SOLVER_VEOLCITY_VERLET
    /\ 1 \in over /\ FreeP(particles[1])
    /\ springs[0].k # Zero /\ springs[0].damp # Zero
    /\ particles[1].pos.y = GroundY
    /\ particles[1].vel.y # Zero
    /\ particles[1].acc = VZero

\* C24: while one of the eight solvers is selected, the accumulated
\* acceleration of every particle, pinned or free, is zero whenever no
\* sub-step is under way: after every sub-step, after every step() and
\* update(), and after every setPinned.
C24_AccReset ==
    current_solver \in Solvers
        => \A i \in DOMAIN particles : particles[i].acc = VZero

\* the end of a sub-step of a second update(), entered after a setPinned,
\* in which gravity and a live spring acted on a free, moving particle next
\* to a pinned one
C24_Witness ==
    /\ pc = "step" /\ sub_i > 0 /\ nupdates = 2
    /\ call.op = "update" /\ call.after = "setPinned"
    /\ springs[0].k # Zero
    /\ gravity # VZero
    /\ PinnedP(particles[0]) /\ FreeP(particles[1])
    /\ particles[1].vel # VZero
    /\ particles[1].acc = VZero /\ particles[0].acc = VZero

\* the length of spring s between the particles ps
SpringLength(ps, s) == VLength(VSub(ps[s.p1].pos, ps[s.p2].pos))

\* the force F of spring s of length len # 0 on its endpoints: direction
\* times (stretch times stiffness plus damping times the relative velocity
\* along the spring)
HookeForce(ps, s, len) ==
    LET dir == VMul(VSub(ps[s.p1].pos, ps[s.p2].pos), RDiv(One, len))
    IN  VMul(dir, RAdd(RMul(RSub(len, s.rest_len), s.k),
                       RMul(s.damp, VDot(VSub(ps[s.p1].vel, ps[s.p2].vel),
                                         dir))))

\* what the claim lets spring s add to the accelerations ps, F being its
\* force: q is what the code made of ps
SpringShares(ps, q, s, F) ==
    /\ \A i \in DOMAIN ps : i \notin {s.p1, s.p2} => q[i] = ps[i]
    /\ q[s.p1] = [ps[s.p1] EXCEPT !.acc =
                      IF FreeP(ps[s.p1])
                        THEN VSub(@, VMul(F, RDiv(One, ps[s.p1].mass)))
                        ELSE @]
    /\ q[s.p2] = [ps[s.p2] EXCEPT !.acc =
                      IF FreeP(ps[s.p2])
                        THEN VAdd(@, VMul(F, RDiv(One, ps[s.p2].mass)))
                        ELSE @]
    /\ (FreeP(ps[s.p1]) /\ FreeP(ps[s.p2]))
          => VAdd(VMul(VSub(q[s.p1].acc, ps[s.p1].acc), ps[s.p1].mass),
                  VMul(VSub(q[s.p2].acc, ps[s.p2].acc), ps[s.p2].mass))
               = VZero

\* C25: in every state, the loop body of solve_springs for a spring leaves
\* the particles unchanged if the endpoints are closer than the epsilon,
\* and otherwise subtracts F / mass from the acceleration of a free first
\* endpoint and adds F / mass to that of a free second endpoint, changes
\* nothing else, and the two shares of a spring between free endpoints
\* cancel when weighted by the masses.
C25_SpringShares ==
    \A j \in DOMAIN springs :
        IF RLt(SpringLength(particles, springs[j]), SpringEpsilon)
          THEN SpringForce(particles, springs[j]) = particles
          ELSE SpringShares(particles, SpringForce(particles, springs[j]),
                            springs[j],
                            HookeForce(particles, springs[j],
                                       SpringLength(particles, springs[j])))

\* a stretched, damped spring between two free particles that move against
\* each other
C25_Witness ==
    /\ Size(springs) = 1
    /\ FreeP(particles[0]) /\ FreeP(particles[1])
    /\ springs[0].k # Zero /\ springs[0].damp # Zero
    /\ RGt(SpringLength(particles, springs[0]), SpringEpsilon)
    /\ SpringLength(particles, springs[0]) # springs[0].rest_len
    /\ particles[0].vel # particles[1].vel
    /\ SpringForce(particles, springs[0])[0].acc # VZero

\* C26: in every state adjacency_list has one entry per particle, and the
\* entry of a particle lists, each once, exactly the indices of the springs
\* that have the particle as an endpoint.
C26_AdjacencyMirrors ==
    /\ DOMAIN adjacency_list = DOMAIN particles
    /\ \A i \in DOMAIN adjacency_list :
          /\ {adjacency_list[i][a] : a \in 1 .. Len(adjacency_list[i])}
                = {j \in DOMAIN springs :
                      springs[j].p1 = i \/ springs[j].p2 = i}
          /\ \A a, b \in 1 .. Len(adjacency_list[i]) :
                adjacency_list[i][a] = adjacency_list[i][b] => a = b

\* a 2 x 2 cloth built over a 4 x 3 cloth
C26_Witness ==
    /\ call.op = "createCloth" /\ call.w = 2 /\ call.h = 2
    /\ call.had = 12
    /\ Size(springs) = 6
    /\ adjacency_list = (0 :> <<0, 1, 5>> @@ 1 :> <<0, 2, 4>>
                           @@ 2 :> <<1, 2, 3>> @@ 3 :> <<3, 4, 5>>)

\* the endpoints of every spring of ss are two different indices of the
\* particles 0 .. n-1
ValidEndpoints(ss, n) ==
    \A j \in DOMAIN ss :
        /\ ss[j].p1 # ss[j].p2
        /\ ss[j].p1 \in 0 .. n - 1
        /\ ss[j].p2 \in 0 .. n - 1

\* C27: after every step of the world the two endpoints of every spring
\* are distinct indices below the current particle count, and a step that
\* is not a createCloth call (alone or within the front end's construction)
\* leaves the number of springs and the endpoints and rest length of each
\* of them unchanged.
C27_EndpointsFixed ==
    [][/\ ValidEndpoints(springs', Size(particles'))
       /\ call'.op \notin {"createCloth", "createWasmSim"}
            => /\ DOMAIN springs' = DOMAIN springs
               /\ \A j \in DOMAIN springs :
                     /\ springs'[j].p1 = springs[j].p1
                     /\ springs'[j].p2 = springs[j].p2
                     /\ springs'[j].rest_len = springs[j].rest_len]_vars

\* a 4 x 3 cloth whose springs setSpringParams has just rewritten: the last
\* spring still joins particle 11 to particle 6 at its diagonal rest length
C27_Witness ==
    /\ call.op = "setSpringParams" /\ ~call.again
    /\ Size(particles) = 12 /\ Size(springs) = 29
    /\ springs[28].k = Zero
    /\ springs[28].p1 = 11 /\ springs[28].p2 = 6
    /\ springs[28].rest_len = RMul(Sqrt2, R(20))

\* a sub-step has been run before the one that is about to run
HasRun == sub_i > 0 \/ nsteps > 0 \/ nupdates >= 2

\* the duration of the last sub-step that was run: that of the sub-steps of
\* this step(), or of the step() before it within the same update(), or of
\* the last step() of the update() before
LastDt == IF sub_i > 0 \/ nsteps > 0 THEN sub_dt ELSE call.last_dt

\* C28: under time-corrected Verlet with zero gravity and wind and damping
\* factor 1, a sub-step of duration dt that follows a sub-step of duration
\* prevDt moves a single free particle without springs, away from the
\* ground plane, by (position - previous position) * dt / prevDt, and
\* leaves it with the stored previous duration dt; and before the sub-step
\* the stored previous duration was prevDt.
C28_TimeCorrected ==
    [][(/\ SubStepTaken /\ HasRun
        /\ OneFreeParticle
        /\ current_solver = SOLVER_TIME_CORRECTED_VERLET
        /\ gravity = VZero /\ wind = VZero /\ global_damping = One
        /\ 0 \notin over')
          => /\ particles'[0].pos =
                  VAdd(particles[0].pos,
                       VMul(VSub(particles[0].pos, particles[0].old_pos),
                            RDiv(sub_dt, LastDt)))
             /\ particles'[0].prev_dt = sub_dt
             /\ particles[0].prev_dt = LastDt]_vars

\* C29: at the end of a sub-step of duration dt under any of the eight
\* solvers, a single free particle that the sub-step did not carry beyond
\* the ground plane has position - previous position = velocity * dt.
C29_ConsistentState ==
    (/\ pc = "step" /\ sub_i > 0
     /\ OneFreeParticle
     /\ current_solver \in Solvers
     /\ 0 \notin over)
        => VSub(particles[0].pos, particles[0].old_pos)
             = VMul(particles[0].vel, sub_dt)

\* C30: whatever int setSolver was given, the accumulated acceleration of
\* every particle is zero at the end of every sub-step of step().
C30_NoPileUp ==
    (pc = "step" /\ sub_i > 0)
        => \A i \in DOMAIN particles : particles[i].acc = VZero

====
